---- MODULE Spec2Model ----
(***************************************************************************)
(* Model of src/main.py: a MapReduce job over synthetic access-log lines.  *)
(* The main process computes one chunk size per worker, a process pool     *)
(* runs mapper_function on every chunk, functools.reduce folds             *)
(* reducer_function over the mapped results, and a report is derived from  *)
(* the final result.                                                       *)
(*                                                                         *)
(* Text is modelled as a sequence of one-character strings, a defaultdict  *)
(* as the sequence of its <<key, count>> items in insertion order.         *)
(***************************************************************************)
EXTENDS Integers, Sequences, FiniteSets, TLC

\* ------------------------------------------------------------------ bounds

\* LOG_SIZE ranges over 0..MaxLogSize (5_000_000 in the source).
MaxLogSize == 4

\* NUM_WORKERS ranges over 1..MaxWorkers (multiprocessing.cpu_count()).
MaxWorkers == 2

\* IPS holds 192.168.1.1 .. 192.168.1.NumIPs (range(1, 50) in the source).
NumIPs == 1

\* Largest count in a table handed directly to reducer_function (SpecReduce).
MaxCount == 1

\* ------------------------------------------------------------------ text

Digits == <<"0", "1", "2", "3", "4", "5", "6", "7", "8", "9">>

IsDigit(c) == \E i \in 1..Len(Digits) : Digits[i] = c

\* str(n) for n >= 0: the decimal digits of n, no padding.
RECURSIVE IntToStr(_)
IntToStr(n) ==
    IF n < 10 THEN <<Digits[n + 1]>>
    ELSE IntToStr(n \div 10) \o <<Digits[(n % 10) + 1]>>

\* The decimal digits of n, zero-padded on the left to width w.
RECURSIVE ZeroPad(_, _)
ZeroPad(n, w) ==
    IF w = 0 THEN <<>>
    ELSE ZeroPad(n \div 10, w - 1) \o <<Digits[(n % 10) + 1]>>

\* f"{timestamp:.6f}" of a time given as <<seconds, microseconds>>.
FormatTimestamp(ts) == IntToStr(ts[1]) \o <<".">> \o ZeroPad(ts[2], 6)

\* Values time.time() is taken to return.
Timestamps == { <<0, 0>>, <<1762156800, 123456>> }

\* ------------------------------------------------------------------ configuration

IPS == [i \in 1..NumIPs |->
          <<"1", "9", "2", ".", "1", "6", "8", ".", "1", ".">> \o IntToStr(i)]

STATUS_CODES ==
    <<200, 200, 200, 200, 200, 200, 200, 200, 200, 200, 404, 500, 301>>

weighted_ips == IPS \o [i \in 1..10 |-> <<"1", "0", ".", "0", ".", "0", ".", "1">>]

\* ------------------------------------------------------------------ generator

generate_log_line(ip, code, timestamp) ==
    FormatTimestamp(timestamp)
      \o <<" ", "-", " ", "I", "N", "F", "O", " ", "-", " ">>
      \o ip
      \o <<" ", "-", " ", "R", "E", "Q", "U", "E", "S", "T", ":", "G", "E", "T",
           " ", "/", "a", "p", "i", "/", "v", "1", "/", "d", "a", "t", "a",
           " ", "-", " ", "S", "T", "A", "T", "U", "S", ":">>
      \o IntToStr(code)

\* Every line generate_log_line can return.
GeneratedLines ==
    { generate_log_line(weighted_ips[i], STATUS_CODES[j], ts) :
        i \in 1..Len(weighted_ips), j \in 1..Len(STATUS_CODES), ts \in Timestamps }

\* ------------------------------------------------------------------ extractor
\* re.compile(r"(\d{1,3}\.\d{1,3}\.\d{1,3}\.\d{1,3}).*STATUS:(\d+)").search

RECURSIVE ConcatAll(_)
ConcatAll(ss) == IF ss = <<>> THEN <<>> ELSE Head(ss) \o ConcatAll(Tail(ss))

\* s[p .. p+n-1] exists and is all digits.
DigitRun(s, p, n) ==
    /\ p + n - 1 <= Len(s)
    /\ \A i \in p..(p + n - 1) : IsDigit(s[i])

\* \d{1,3} at p: the positions just after the octet, longest first (greedy).
OctetEnds(s, p) ==
    SelectSeq(<<p + 3, p + 2, p + 1>>, LAMBDA e : DigitRun(s, p, e - p))

\* \.\d{1,3} continued from every position of ends, in backtracking order.
DotOctetEnds(s, ends) ==
    ConcatAll([i \in 1..Len(ends) |->
                 IF ends[i] <= Len(s) /\ s[ends[i]] = "."
                 THEN OctetEnds(s, ends[i] + 1) ELSE <<>>])

\* Group 1 at p: the positions just after it, in backtracking order.
AddressEnds(s, p) ==
    DotOctetEnds(s, DotOctetEnds(s, DotOctetEnds(s, OctetEnds(s, p))))

\* "STATUS:" and one digit at q.
MarkerAt(s, q) ==
    /\ q + 7 <= Len(s)
    /\ SubSeq(s, q, q + 6) = <<"S", "T", "A", "T", "U", "S", ":">>
    /\ IsDigit(s[q + 7])

\* The marker is looked for in the whole line, not only after group 1.
MarkerStarts_Anywhere(s, e) == { q \in 1..Len(s) : MarkerAt(s, q) }

\* .*STATUS:\d from e: the positions of the marker ('.' matches no newline).
MarkerStarts(s, e) ==
    { q \in e..Len(s) : MarkerAt(s, q) /\ \A i \in e..(q - 1) : s[i] # "\n" }

SetMax(S) == CHOOSE x \in S : \A y \in S : y <= x

SetMin(S) == CHOOSE x \in S : \A y \in S : x <= y

\* (\d+?) at p, lazy: one digit.
DigitsEnd_Lazy(s, p) == p

\* (\d+) at p, greedy: the last position of the digit run that starts at p.
DigitsEnd(s, p) == SetMax({ e \in p..Len(s) : DigitRun(s, p, e - p + 1) })

\* The match that starts at p: <<group 1, group 2>>, or <<>> for none.
MatchAt(s, p) ==
    LET ends == SelectSeq(AddressEnds(s, p), LAMBDA e : MarkerStarts(s, e) # {})
    IN  IF ends = <<>> THEN <<>>
        ELSE LET e == ends[1]
                 q == SetMax(MarkerStarts(s, e))
             IN  << SubSeq(s, p, e - 1), SubSeq(s, q + 7, DigitsEnd(s, q + 7)) >>

\* pattern.search(s): match.groups() of the leftmost match, <<>> for None.
search(s) ==
    LET starts == { p \in 1..Len(s) : MatchAt(s, p) # <<>> }
    IN  IF starts = {} THEN <<>> ELSE MatchAt(s, SetMin(starts))

\* match.groups() for every generated line.
Extracted == [s \in GeneratedLines |-> search(s)]

\* ------------------------------------------------------------------ defaultdict(int)

Keys(d) == { d[i][1] : i \in 1..Len(d) }

\* d.get(k, 0)
Get(d, k) ==
    IF k \in Keys(d) THEN d[CHOOSE i \in 1..Len(d) : d[i][1] = k][2] ELSE 0

\* d[k] = n where the source has d[k] += n.
AddTo_Assign(d, k, n) ==
    IF k \in Keys(d)
    THEN [i \in 1..Len(d) |-> IF d[i][1] = k THEN <<k, n>> ELSE d[i]]
    ELSE Append(d, <<k, n>>)

\* d[k] += n: a missing key is created with 0 first, at the end of the dict.
AddTo(d, k, n) ==
    IF k \in Keys(d)
    THEN [i \in 1..Len(d) |-> IF d[i][1] = k THEN <<k, d[i][2] + n>> ELSE d[i]]
    ELSE Append(d, <<k, n>>)

\* sum(d.values())
RECURSIVE SumValues(_)
SumValues(d) == IF d = <<>> THEN 0 ELSE Head(d)[2] + SumValues(Tail(d))

\* The loop over new.items() is left after its first item.
MergeInto_FirstOnly(acc, new) ==
    IF new = <<>> THEN acc ELSE AddTo(acc, Head(new)[1], Head(new)[2])

\* for k, count in new.items(): acc[k] += count
RECURSIVE MergeInto(_, _)
MergeInto(acc, new) ==
    IF new = <<>> THEN acc
    ELSE MergeInto(AddTo(acc, Head(new)[1], Head(new)[2]), Tail(new))

EmptyResult == [ips |-> <<>>, codes |-> <<>>]

\* for k, count in new.items(): acc[k] = count
RECURSIVE MergeAssign(_, _)
MergeAssign(acc, new) ==
    IF new = <<>> THEN acc
    ELSE MergeAssign(AddTo_Assign(acc, Head(new)[1], Head(new)[2]), Tail(new))

\* Both loops assign where the source adds.
reducer_function_Assign(accumulated_result, new_result) ==
    [ips   |-> MergeAssign(accumulated_result.ips, new_result.ips),
     codes |-> MergeAssign(accumulated_result.codes, new_result.codes)]

\* The loop over new_result['codes'] is missing.
reducer_function_SkipCodes(accumulated_result, new_result) ==
    [ips   |-> MergeInto(accumulated_result.ips, new_result.ips),
     codes |-> accumulated_result.codes]

\* return new_result where the source returns accumulated_result.
reducer_function_ReturnNew(accumulated_result, new_result) == new_result

reducer_function(accumulated_result, new_result) ==
    [ips   |-> MergeInto(accumulated_result.ips, new_result.ips),
     codes |-> MergeInto(accumulated_result.codes, new_result.codes)]

\* ------------------------------------------------------------------ report

\* sorted(...) placing an item before the items of equal count that precede it.
RECURSIVE SortedByCount_TiesLast(_)
SortedByCount_TiesLast(items) ==
    IF items = <<>> THEN <<>>
    ELSE LET rest == SortedByCount_TiesLast(Tail(items))
             h    == Head(items)
             n    == Cardinality({ i \in 1..Len(rest) : rest[i][2] >= h[2] })
         IN  SubSeq(rest, 1, n) \o <<h>> \o SubSeq(rest, n + 1, Len(rest))

\* sorted(items, key=lambda x: x[1], reverse=True): stable, descending by count.
RECURSIVE SortedByCount(_)
SortedByCount(items) ==
    IF items = <<>> THEN <<>>
    ELSE LET rest == SortedByCount(Tail(items))
             h    == Head(items)
             n    == Cardinality({ i \in 1..Len(rest) : rest[i][2] > h[2] })
         IN  SubSeq(rest, 1, n) \o <<h>> \o SubSeq(rest, n + 1, Len(rest))

\* items[:n]
Slice(items, n) == SubSeq(items, 1, IF Len(items) < n THEN Len(items) ELSE n)

\* (error_500 / total_requests) * 100 if total_requests else 0, as the number of
\* hundredths of a percent that f"{error_rate:.2f}" prints (ties to even).
ErrorRate(errors, total) ==
    IF total = 0 THEN 0
    ELSE LET q == (errors * 10000) \div total
             r == (errors * 10000) % total
         IN  IF 2 * r > total \/ (2 * r = total /\ q % 2 = 1) THEN q + 1 ELSE q

\* ------------------------------------------------------------------ state

VARIABLES
    LOG_SIZE,            \* module constant, fixed for a run
    NUM_WORKERS,         \* module constant, fixed for a run
    CHUNK_SIZE,          \* module constant, fixed for a run
    pc,                  \* position of the main process
    warned,              \* the divisibility warning has been printed
    chunk_sizes,         \* the argument list of pool.map
    pool,                \* "none", "open" or "released"
    task,                \* per chunk: "none", "queued", "running", "returned",
                         \* "failed" or "terminated"
    remaining,           \* per chunk: iterations left of the mapper's loop
    local_ip_counts,     \* per chunk: the mapper's local table of addresses
    local_code_counts,   \* per chunk: the mapper's local table of status codes
    matched,             \* per chunk: lines for which search returned a match
    mapped_results,      \* what pool.map returned
    accumulated_result,  \* the accumulator of functools.reduce
    reduced,             \* how many mapped results have been folded in
    acc_before,          \* the accumulator as passed to the last reducer call
    sorted_ips,          \* report: the top addresses
    total_requests,      \* report
    error_500,           \* report
    error_rate,          \* report, in hundredths of a percent
    line,                \* SpecMapper only: the line of the mapper's last iteration
    match                \* SpecMapper only: match.groups() of that line, <<>> for None

vars == << LOG_SIZE, NUM_WORKERS, CHUNK_SIZE, pc, warned, chunk_sizes, pool, task,
           remaining, local_ip_counts, local_code_counts, matched, mapped_results,
           accumulated_result, reduced, acc_before, sorted_ips, total_requests,
           error_500, error_rate, line, match >>

config  == << LOG_SIZE, NUM_WORKERS, CHUNK_SIZE >>
workers == << task, remaining, local_ip_counts, local_code_counts, matched >>
reduce  == << accumulated_result, reduced, acc_before >>
report  == << sorted_ips, total_requests, error_500, error_rate >>
probe   == << line, match >>

Workers == 1..NUM_WORKERS

\* The share rounded up instead of down.
ChunkSize_Ceil(log_size, num_workers) == (log_size + num_workers - 1) \div num_workers

\* LOG_SIZE // NUM_WORKERS
ChunkSize(log_size, num_workers) == log_size \div num_workers

\* [CHUNK_SIZE] * NUM_WORKERS
ChunkSizes(chunk_size, num_workers) == [i \in 1..num_workers |-> chunk_size]

\* a % b of Python: the remainder has the sign of b.
Mod(a, b) == a - b * (a \div b)

\* len(range(n))
RangeLen(n) == IF n > 0 THEN n ELSE 0

\* Nothing of the job has run yet.
Fresh ==
    /\ warned = FALSE
    /\ chunk_sizes = <<>>
    /\ pool = "none"
    /\ task = [i \in Workers |-> "none"]
    /\ remaining = [i \in Workers |-> 0]
    /\ local_ip_counts = [i \in Workers |-> <<>>]
    /\ local_code_counts = [i \in Workers |-> <<>>]
    /\ matched = [i \in Workers |-> 0]
    /\ mapped_results = <<>>
    /\ accumulated_result = EmptyResult
    /\ reduced = 0
    /\ acc_before = EmptyResult
    /\ sorted_ips = <<>>
    /\ total_requests = 0
    /\ error_500 = 0
    /\ error_rate = 0
    /\ line = <<>>
    /\ match = <<>>

\* The module has been loaded and the __main__ block is about to run.
Loaded == pc = "main" /\ Fresh

Init ==
    /\ LOG_SIZE \in 0..MaxLogSize
    /\ NUM_WORKERS \in 1..MaxWorkers
    /\ CHUNK_SIZE = ChunkSize(LOG_SIZE, NUM_WORKERS)
    /\ Loaded

\* ------------------------------------------------------------------ main process

\* The divisibility check treated as an error: the job is not run.
MainCheck_Abort ==
    /\ pc = "main"
    /\ warned' = (Mod(LOG_SIZE, NUM_WORKERS) # 0)
    /\ pc' = IF Mod(LOG_SIZE, NUM_WORKERS) # 0 THEN "failed" ELSE "job"
    /\ UNCHANGED << config, probe, chunk_sizes, pool, workers, mapped_results, reduce, report >>

\* if LOG_SIZE % NUM_WORKERS != 0: print("Warning: ...")
MainCheck ==
    /\ pc = "main"
    /\ warned' = (Mod(LOG_SIZE, NUM_WORKERS) # 0)
    /\ pc' = "job"
    /\ UNCHANGED << config, probe, chunk_sizes, pool, workers, mapped_results, reduce, report >>

\* run_map_reduce_job up to the call of pool.map: the chunks are queued.
StartMap ==
    /\ pc = "job"
    /\ NUM_WORKERS >= 1
    /\ chunk_sizes' = ChunkSizes(CHUNK_SIZE, NUM_WORKERS)
    /\ pool' = "open"
    /\ task' = [i \in Workers |-> "queued"]
    /\ pc' = "map"
    /\ UNCHANGED << config, probe, warned, remaining, local_ip_counts, local_code_counts,
                    matched, mapped_results, reduce, report >>

\* ------------------------------------------------------------------ workers

\* A pool process takes chunk i and enters mapper_function.
WorkerStart(i) ==
    /\ pool = "open"
    /\ task[i] = "queued"
    /\ task' = [task EXCEPT ![i] = "running"]
    /\ remaining' = [remaining EXCEPT ![i] = RangeLen(chunk_sizes[i])]
    /\ local_ip_counts' = [local_ip_counts EXCEPT ![i] = <<>>]
    /\ local_code_counts' = [local_code_counts EXCEPT ![i] = <<>>]
    /\ UNCHANGED << config, probe, pc, warned, chunk_sizes, pool, matched, mapped_results,
                    reduce, report >>

\* The loop body without 'if match:': match.groups() raises AttributeError on
\* None and the exception leaves mapper_function.
LoopBody_NoGuard(i, groups) ==
    IF groups # <<>>
    THEN /\ local_ip_counts' = [local_ip_counts EXCEPT ![i] = AddTo(@, groups[1], 1)]
         /\ local_code_counts' = [local_code_counts EXCEPT ![i] = AddTo(@, groups[2], 1)]
         /\ matched' = [matched EXCEPT ![i] = @ + 1]
         /\ remaining' = [remaining EXCEPT ![i] = @ - 1]
         /\ UNCHANGED task
    ELSE /\ task' = [task EXCEPT ![i] = "failed"]
         /\ remaining' = [remaining EXCEPT ![i] = 0]
         /\ local_ip_counts' = [local_ip_counts EXCEPT ![i] = <<>>]
         /\ local_code_counts' = [local_code_counts EXCEPT ![i] = <<>>]
         /\ matched' = [matched EXCEPT ![i] = 0]

\* The loop body after the search: 'if match:' and the two increments.
LoopBody(i, groups) ==
    /\ IF groups # <<>>
       THEN /\ local_ip_counts' =
                 [local_ip_counts EXCEPT ![i] = AddTo(@, groups[1], 1)]
            /\ local_code_counts' =
                 [local_code_counts EXCEPT ![i] = AddTo(@, groups[2], 1)]
            /\ matched' = [matched EXCEPT ![i] = @ + 1]
       ELSE UNCHANGED << local_ip_counts, local_code_counts, matched >>
    /\ remaining' = [remaining EXCEPT ![i] = @ - 1]
    /\ UNCHANGED task

\* One iteration of the mapper's loop: generate a line, search it, count it.
WorkerStep(i) ==
    /\ pool = "open"
    /\ task[i] = "running"
    /\ remaining[i] > 0
    /\ \E generated \in GeneratedLines : LoopBody(i, Extracted[generated])
    /\ UNCHANGED << config, probe, pc, warned, chunk_sizes, pool, mapped_results,
                    reduce, report >>

\* The worker has finished its loop but its result never reaches the pool.
WorkerReturn_Hang(i) ==
    /\ pool = "open"
    /\ task[i] = "running"
    /\ remaining[i] = 0
    /\ UNCHANGED vars

\* return {'ips': local_ip_counts, 'codes': local_code_counts}
WorkerReturn(i) ==
    /\ pool = "open"
    /\ task[i] = "running"
    /\ remaining[i] = 0
    /\ task' = [task EXCEPT ![i] = "returned"]
    /\ UNCHANGED << config, probe, pc, warned, chunk_sizes, pool, remaining, local_ip_counts,
                    local_code_counts, matched, mapped_results, reduce, report >>

\* mapper_function is left by an exception: its local tables are gone.
WorkerRaise(i) ==
    /\ pool = "open"
    /\ task[i] = "running"
    /\ task' = [task EXCEPT ![i] = "failed"]
    /\ remaining' = [remaining EXCEPT ![i] = 0]
    /\ local_ip_counts' = [local_ip_counts EXCEPT ![i] = <<>>]
    /\ local_code_counts' = [local_code_counts EXCEPT ![i] = <<>>]
    /\ matched' = [matched EXCEPT ![i] = 0]
    /\ UNCHANGED << config, probe, pc, warned, chunk_sizes, pool, mapped_results, reduce,
                    report >>

\* ------------------------------------------------------------------ join

\* pool.map returns once the result of some chunk has arrived.
MapComplete_Any == \E i \in Workers : task[i] = "returned"

\* pool.map returns once the result of every chunk has arrived.
MapComplete == \A i \in Workers : task[i] = "returned"

\* pool.map raises as soon as the failure of one chunk has arrived.
MapFailed == \E i \in Workers : task[i] = "failed"

\* pool.map returns the results in the order of chunk_sizes, the with block
\* releases the pool, and initial_state is built.
MapReturn ==
    /\ pc = "map"
    /\ MapComplete
    /\ mapped_results' =
          [i \in Workers |-> [ips |-> local_ip_counts[i], codes |-> local_code_counts[i]]]
    /\ pool' = "released"
    /\ accumulated_result' = EmptyResult
    /\ pc' = "reduce"
    /\ UNCHANGED << config, probe, warned, chunk_sizes, workers, reduced, acc_before, report >>

\* A worker's exception is swallowed: the results that did arrive are reduced.
MapRaise_Swallow ==
    /\ pc = "map"
    /\ MapFailed
    /\ \A i \in Workers : task[i] \in {"returned", "failed"}
    /\ mapped_results' =
          [i \in Workers |-> [ips |-> local_ip_counts[i], codes |-> local_code_counts[i]]]
    /\ pool' = "released"
    /\ accumulated_result' = EmptyResult
    /\ pc' = "reduce"
    /\ UNCHANGED << config, probe, warned, chunk_sizes, workers, reduced, acc_before, report >>

\* The exception leaves run_map_reduce_job without the pool being released.
MapRaise_Leak ==
    /\ pc = "map"
    /\ MapFailed
    /\ pc' = "failed"
    /\ UNCHANGED << config, probe, warned, chunk_sizes, pool, workers, mapped_results, reduce,
                    report >>

\* pool.map re-raises a worker's exception: the with block terminates the pool
\* and the exception leaves run_map_reduce_job.
MapRaise ==
    /\ pc = "map"
    /\ MapFailed
    /\ pool' = "released"
    /\ task' = [i \in Workers |->
                  IF task[i] \in {"queued", "running"} THEN "terminated" ELSE task[i]]
    /\ remaining' = [i \in Workers |-> 0]
    /\ local_ip_counts' =
          [i \in Workers |-> IF task[i] = "returned" THEN local_ip_counts[i] ELSE <<>>]
    /\ local_code_counts' =
          [i \in Workers |-> IF task[i] = "returned" THEN local_code_counts[i] ELSE <<>>]
    /\ matched' = [i \in Workers |-> IF task[i] = "returned" THEN matched[i] ELSE 0]
    /\ pc' = "failed"
    /\ UNCHANGED << config, probe, warned, chunk_sizes, mapped_results, reduce, report >>

\* ------------------------------------------------------------------ reduce and report

\* One call of reducer_function by functools.reduce.
ReduceStep ==
    /\ pc = "reduce"
    /\ reduced < Len(mapped_results)
    /\ acc_before' = accumulated_result
    /\ accumulated_result' =
          reducer_function(accumulated_result, mapped_results[reduced + 1])
    /\ reduced' = reduced + 1
    /\ UNCHANGED << config, probe, pc, warned, chunk_sizes, pool, workers, mapped_results,
                    report >>

\* The report with the division error_500 / total_requests left unguarded.
Report_NoGuard ==
    /\ pc = "reduce"
    /\ reduced = Len(mapped_results)
    /\ sorted_ips' = Slice(SortedByCount(accumulated_result.ips), 3)
    /\ total_requests' = SumValues(accumulated_result.codes)
    /\ error_500' = Get(accumulated_result.codes, <<"5", "0", "0">>)
    /\ IF SumValues(accumulated_result.codes) = 0
          THEN pc' = "failed" /\ UNCHANGED error_rate
          ELSE /\ error_rate' = ErrorRate(Get(accumulated_result.codes, <<"5", "0", "0">>),
                                          SumValues(accumulated_result.codes))
               /\ pc' = "done"
    /\ UNCHANGED << config, probe, warned, chunk_sizes, pool, workers, mapped_results, reduce >>

\* reduce has returned final_result; the report is computed and printed.
Report ==
    /\ pc = "reduce"
    /\ reduced = Len(mapped_results)
    /\ sorted_ips' = Slice(SortedByCount(accumulated_result.ips), 3)
    /\ total_requests' = SumValues(accumulated_result.codes)
    /\ error_500' = Get(accumulated_result.codes, <<"5", "0", "0">>)
    /\ error_rate' = ErrorRate(Get(accumulated_result.codes, <<"5", "0", "0">>),
                               SumValues(accumulated_result.codes))
    /\ pc' = "done"
    /\ UNCHANGED << config, probe, warned, chunk_sizes, pool, workers, mapped_results, reduce >>

Next ==
    \/ MainCheck
    \/ StartMap
    \/ \E i \in Workers : WorkerStart(i)
    \/ \E i \in Workers : WorkerStep(i)
    \/ \E i \in Workers : WorkerReturn(i)
    \/ \E i \in Workers : WorkerRaise(i)
    \/ MapReturn
    \/ MapRaise
    \/ ReduceStep
    \/ Report

Spec == Init /\ [][Next]_vars

\* ------------------------------------------------------------------ the job without failures

\* Largest LOG_SIZE of the jobs followed to their end under fairness.
MaxFairLogSize == 3

InitFair == Init /\ LOG_SIZE <= MaxFairLogSize

\* The steps of the pool process working on chunk i.
WorkerRun(i) == i \in Workers /\ (WorkerStart(i) \/ WorkerStep(i) \/ WorkerReturn(i))

\* The steps of the main process.
MainRun == MainCheck \/ StartMap \/ MapReturn \/ ReduceStep \/ Report

\* The job when mapper_function raises nothing.
NextNoFail ==
    \/ MainCheck
    \/ StartMap
    \/ \E i \in Workers : WorkerStart(i)
    \/ \E i \in Workers : WorkerStep(i)
    \/ \E i \in Workers : WorkerReturn(i)
    \/ MapReturn
    \/ ReduceStep
    \/ Report

\* The operating system schedules every pool process and the main process.
Fairness == WF_vars(MainRun) /\ \A i \in 1..MaxWorkers : WF_vars(WorkerRun(i))

SpecFair == InitFair /\ [][NextNoFail]_vars /\ Fairness

\* ------------------------------------------------------------------ other configurations

\* multiprocessing.Pool(processes=NUM_WORKERS) raises ValueError for a number
\* of processes below 1; the exception leaves run_map_reduce_job.
PoolRaise ==
    /\ pc = "job"
    /\ NUM_WORKERS < 1
    /\ chunk_sizes' = ChunkSizes(CHUNK_SIZE, NUM_WORKERS)
    /\ pc' = "failed"
    /\ UNCHANGED << config, probe, warned, pool, workers, mapped_results, reduce, report >>

\* LOG_SIZE and NUM_WORKERS edited to any value, invalid ones included. With
\* NUM_WORKERS = 0 the division of line 13 raises ZeroDivisionError while the
\* module is loaded, and CHUNK_SIZE is never bound.
InitConfig ==
    /\ LOG_SIZE \in (-1)..MaxLogSize
    /\ NUM_WORKERS \in (-1)..MaxWorkers
    /\ IF NUM_WORKERS = 0
       THEN CHUNK_SIZE = 0 /\ pc = "failed" /\ Fresh
       ELSE CHUNK_SIZE = ChunkSize(LOG_SIZE, NUM_WORKERS) /\ Loaded

NextConfig == Next \/ PoolRaise

SpecConfig == InitConfig /\ [][NextConfig]_vars

\* ------------------------------------------------------------------ mapper_function alone

\* Most loop iterations of a direct call of mapper_function (SpecMapper).
MaxChunk == 2

\* Lines handed to the loop body in place of a generated one:
\*   ""                               "10.0.0.1 - GET"
\*   "10.0.0.1 STATUS:OK"             "STATUS:200"
\*   "1.2.3 STATUS:500"               "STATUS:200 10.0.0.1"
\*   "STATUS:200 10.0.0.1 STATUS:404"
InjectedLines ==
    { <<>>,
      <<"1", "0", ".", "0", ".", "0", ".", "1", " ", "-", " ", "G", "E", "T">>,
      <<"1", "0", ".", "0", ".", "0", ".", "1", " ",
        "S", "T", "A", "T", "U", "S", ":", "O", "K">>,
      <<"S", "T", "A", "T", "U", "S", ":", "2", "0", "0">>,
      <<"1", ".", "2", ".", "3", " ", "S", "T", "A", "T", "U", "S", ":", "5", "0", "0">>,
      <<"S", "T", "A", "T", "U", "S", ":", "2", "0", "0", " ",
        "1", "0", ".", "0", ".", "0", ".", "1">>,
      <<"S", "T", "A", "T", "U", "S", ":", "2", "0", "0", " ",
        "1", "0", ".", "0", ".", "0", ".", "1", " ",
        "S", "T", "A", "T", "U", "S", ":", "4", "0", "4">> }

\* log_pattern.search for every line the loop body is given.
Searched == [s \in GeneratedLines \cup InjectedLines |-> search(s)]

\* One iteration of the mapper's loop on a generated or an injected line, the
\* locals line and match kept.
WorkerStepTraced(i) ==
    /\ pool = "open"
    /\ task[i] = "running"
    /\ remaining[i] > 0
    /\ \E given \in GeneratedLines \cup InjectedLines :
          /\ line' = given
          /\ match' = Searched[given]
          /\ LoopBody(i, Searched[given])
    /\ UNCHANGED << config, pc, warned, chunk_sizes, pool, mapped_results, reduce,
                    report >>

\* mapper_function(chunk_size) called directly, in one process.
InitMapper ==
    /\ NUM_WORKERS = 1
    /\ LOG_SIZE \in 0..MaxChunk
    /\ CHUNK_SIZE = LOG_SIZE
    /\ pc = "map"
    /\ warned = FALSE
    /\ chunk_sizes = <<CHUNK_SIZE>>
    /\ pool = "open"
    /\ task = [i \in Workers |-> "queued"]
    /\ remaining = [i \in Workers |-> 0]
    /\ local_ip_counts = [i \in Workers |-> <<>>]
    /\ local_code_counts = [i \in Workers |-> <<>>]
    /\ matched = [i \in Workers |-> 0]
    /\ mapped_results = <<>>
    /\ accumulated_result = EmptyResult
    /\ reduced = 0
    /\ acc_before = EmptyResult
    /\ sorted_ips = <<>>
    /\ total_requests = 0
    /\ error_500 = 0
    /\ error_rate = 0
    /\ line = <<>>
    /\ match = <<>>

NextMapper ==
    \/ \E i \in Workers : WorkerStart(i)
    \/ \E i \in Workers : WorkerStepTraced(i)
    \/ \E i \in Workers : WorkerReturn(i)

SpecMapper == InitMapper /\ [][NextMapper]_vars

\* ------------------------------------------------------------------ the report alone

\* Number of distinct addresses in the aggregate handed to the report.
NumReportIPs == 4

ReportIPs ==
    { <<"1", "9", "2", ".", "1", "6", "8", ".", "1", ".">> \o IntToStr(i) :
        i \in 1..NumReportIPs }

\* Every aggregate address table a job can end with: each address present has
\* been counted at least once, in every insertion order.
ReportTables ==
    UNION { { d \in [1..n -> ReportIPs \X (1..(MaxCount + 1))] :
                \A i, j \in 1..n : d[i][1] = d[j][1] => i = j } :
            n \in 0..NumReportIPs }

\* The job of one worker after reduce has returned final_result.
InitReport ==
    /\ NUM_WORKERS = 1
    /\ \E ips \in ReportTables :
          /\ LOG_SIZE = SumValues(ips)
          /\ local_ip_counts = <<ips>>
          /\ local_code_counts =
                <<IF ips = <<>> THEN <<>> ELSE << <<IntToStr(200), SumValues(ips)>> >> >>
    /\ CHUNK_SIZE = LOG_SIZE
    /\ pc = "reduce"
    /\ warned = FALSE
    /\ chunk_sizes = <<CHUNK_SIZE>>
    /\ pool = "released"
    /\ task = <<"returned">>
    /\ remaining = <<0>>
    /\ matched = <<LOG_SIZE>>
    /\ mapped_results = <<[ips |-> local_ip_counts[1], codes |-> local_code_counts[1]]>>
    /\ accumulated_result = mapped_results[1]
    /\ reduced = 1
    /\ acc_before = EmptyResult
    /\ sorted_ips = <<>>
    /\ total_requests = 0
    /\ error_500 = 0
    /\ error_rate = 0
    /\ line = <<>>
    /\ match = <<>>

SpecReport == InitReport /\ [][Report]_vars

\* ------------------------------------------------------------------ reducer_function alone

\* functools.reduce(reducer_function, results, initial)
RECURSIVE Reduce(_, _)
Reduce(initial, results) ==
    IF results = <<>> THEN initial
    ELSE Reduce(reducer_function(initial, Head(results)), Tail(results))

\* Every defaultdict over keys with counts in 0..MaxCount, in every insertion order.
TablesOver(keys) ==
    UNION { { d \in [1..n -> keys \X (0..MaxCount)] :
                \A i, j \in 1..n : d[i][1] = d[j][1] => i = j } :
            n \in 0..Cardinality(keys) }

\* Arguments for a direct call of reducer_function.
ResultsOver(ip_keys, code_keys) ==
    { [ips |-> a, codes |-> c] : a \in TablesOver(ip_keys), c \in TablesOver(code_keys) }

DirectResults ==
    ResultsOver({weighted_ips[1], weighted_ips[Len(weighted_ips)]}, {IntToStr(500)})

\* reducer_function(accumulated_result, new_result) called once on given tables.
InitReduce ==
    /\ LOG_SIZE = 0
    /\ NUM_WORKERS = 1
    /\ CHUNK_SIZE = 0
    /\ pc = "reduce"
    /\ warned = FALSE
    /\ chunk_sizes = <<0>>
    /\ pool = "released"
    /\ task = [i \in Workers |-> "returned"]
    /\ remaining = [i \in Workers |-> 0]
    /\ local_ip_counts = [i \in Workers |-> <<>>]
    /\ local_code_counts = [i \in Workers |-> <<>>]
    /\ matched = [i \in Workers |-> 0]
    /\ \E new_result \in DirectResults : mapped_results = <<new_result>>
    /\ accumulated_result \in DirectResults
    /\ reduced = 0
    /\ acc_before = accumulated_result
    /\ sorted_ips = <<>>
    /\ total_requests = 0
    /\ error_500 = 0
    /\ error_rate = 0
    /\ line = <<>>
    /\ match = <<>>

SpecReduce == InitReduce /\ [][ReduceStep]_vars

\* ------------------------------------------------------------------ properties

RECURSIVE SumSeq(_)
SumSeq(s) == IF s = <<>> THEN 0 ELSE Head(s) + SumSeq(Tail(s))

\* The chunk sizes have been handed to pool.map.
MapStarted == pc \notin {"main", "job"}

AnyFailed == \E i \in Workers : task[i] = "failed"

AllReturned == \A i \in Workers : task[i] = "returned"

\* C1: the per-worker shares handed to the map stage are NUM_WORKERS many, none
\* negative, and sum exactly to LOG_SIZE.
C1_SharesSumToTotal ==
    MapStarted =>
        /\ Len(chunk_sizes) = NUM_WORKERS
        /\ \A i \in 1..Len(chunk_sizes) : chunk_sizes[i] >= 0
        /\ SumSeq(chunk_sizes) = LOG_SIZE

\* C2: when LOG_SIZE is not divisible by NUM_WORKERS, every worker gets
\* LOG_SIZE div NUM_WORKERS and the first LOG_SIZE mod NUM_WORKERS workers one
\* more, so some share exceeds another by exactly 1 and none by more than 1.
C2_BasePlusRemainder ==
    (MapStarted /\ LOG_SIZE % NUM_WORKERS # 0) =>
        /\ \A i \in 1..Len(chunk_sizes) :
              chunk_sizes[i] = (LOG_SIZE \div NUM_WORKERS)
                                 + (IF i <= LOG_SIZE % NUM_WORKERS THEN 1 ELSE 0)
        /\ \E i, j \in 1..Len(chunk_sizes) : chunk_sizes[i] = chunk_sizes[j] + 1
        /\ \A i, j \in 1..Len(chunk_sizes) : chunk_sizes[i] - chunk_sizes[j] <= 1

\* The lines matched by the workers whose results have been folded in so far.
RECURSIVE MatchedUpTo(_)
MatchedUpTo(k) == IF k = 0 THEN 0 ELSE matched[k] + MatchedUpTo(k - 1)

\* C3: in every partial result a worker returned, in the accumulator after every
\* reducer step and in the final aggregate, the status counts and the address
\* counts both sum to the number of lines that were matched.
C3_SumsEqualMatched ==
    /\ \A i \in Workers :
          task[i] = "returned" =>
              /\ SumValues(local_ip_counts[i]) = matched[i]
              /\ SumValues(local_code_counts[i]) = matched[i]
    /\ \A i \in 1..Len(mapped_results) :
          /\ SumValues(mapped_results[i].ips) = matched[i]
          /\ SumValues(mapped_results[i].codes) = matched[i]
    /\ pc \in {"reduce", "done"} =>
          /\ SumValues(accumulated_result.ips) = MatchedUpTo(reduced)
          /\ SumValues(accumulated_result.codes) = MatchedUpTo(reduced)
    /\ pc = "done" =>
          /\ reduced = NUM_WORKERS
          /\ total_requests = MatchedUpTo(NUM_WORKERS)

\* C3 witness: a finished job of two workers whose aggregate counts one address
\* more than once and more than one status code.
C3_Witness ==
    /\ pc = "done"
    /\ NUM_WORKERS = 2
    /\ \E i \in 1..Len(accumulated_result.ips) : accumulated_result.ips[i][2] >= 2
    /\ Len(accumulated_result.codes) >= 2
    /\ \A i \in Workers : matched[i] >= 1

\* C4: when every generated line matches, the address counts of the final
\* aggregate sum to exactly LOG_SIZE.
C4_NoRecordDropped ==
    (pc = "done" /\ \A generated \in GeneratedLines : Extracted[generated] # <<>>) =>
        SumValues(accumulated_result.ips) = LOG_SIZE

\* Same key set and same count for every key, in both tables.
SameCounts(a, b) ==
    \A f \in {"ips", "codes"} :
        /\ Keys(a[f]) = Keys(b[f])
        /\ \A k \in Keys(a[f]) : Get(a[f], k) = Get(b[f], k)

\* results in the order perm.
Permuted(results, perm) == [i \in 1..Len(results) |-> results[perm[i]]]

\* C5: folding reducer_function over any permutation of the mapped results, from
\* an all-empty accumulator, gives the same key set and the same count for every
\* key in both tables as the fold the job performs.
C5_OrderIndependent ==
    pc = "done" =>
        \A perm \in Permutations(1..Len(mapped_results)) :
            SameCounts(Reduce(EmptyResult, Permuted(mapped_results, perm)),
                       accumulated_result)

\* C5 witness: a finished job whose two partial results differ and give one
\* address different counts; folded in the other order the address table comes
\* out in another insertion order.
C5_Witness ==
    /\ pc = "done"
    /\ Len(mapped_results) = 2
    /\ \E k \in Keys(mapped_results[1].ips) \cap Keys(mapped_results[2].ips) :
          Get(mapped_results[1].ips, k) # Get(mapped_results[2].ips, k)
    /\ Reduce(EmptyResult, <<mapped_results[2], mapped_results[1]>>).ips
          # accumulated_result.ips

\* Every count of both tables is 0 (empty tables included).
AllZero(r) ==
    \A f \in {"ips", "codes"} : \A i \in 1..Len(r[f]) : r[f][i][2] = 0

\* reducer_function has been called on acc_before and mapped_results[1].
ReducerCalled == reduced = 1 /\ Len(mapped_results) = 1

\* C6 as stated: combining an all-zero partial result into any accumulator
\* leaves its key sets and every count unchanged.
C6_ZeroPartialIdentity ==
    (ReducerCalled /\ AllZero(mapped_results[1])) =>
        SameCounts(accumulated_result, acc_before)

\* C6 amended: combining an all-zero partial result into any accumulator leaves
\* every count unchanged (an absent key counting 0); the accumulator keeps its
\* keys and gains, with count 0, the keys of the partial it did not have, so it
\* is unchanged when the partial's tables are empty.
C6_ZeroPartialKeepsCounts ==
    (ReducerCalled /\ AllZero(mapped_results[1])) =>
        /\ \A f \in {"ips", "codes"} :
              /\ \A k \in Keys(acc_before[f]) \cup Keys(mapped_results[1][f]) :
                    Get(accumulated_result[f], k) = Get(acc_before[f], k)
              /\ Keys(accumulated_result[f])
                    = Keys(acc_before[f]) \cup Keys(mapped_results[1][f])
        /\ mapped_results[1] = EmptyResult => accumulated_result = acc_before

\* C6 witness: a zero-count address the accumulator lacked has been combined
\* into an accumulator that counts another address.
C6_Witness ==
    /\ ReducerCalled
    /\ AllZero(mapped_results[1])
    /\ \E i \in 1..Len(acc_before.ips) : acc_before.ips[i][2] > 0
    /\ \E k \in Keys(mapped_results[1].ips) : k \notin Keys(acc_before.ips)

\* The count of key k in table f summed over the first n mapped results.
RECURSIVE CountUpTo(_, _, _)
CountUpTo(f, k, n) ==
    IF n = 0 THEN 0 ELSE Get(mapped_results[n][f], k) + CountUpTo(f, k, n - 1)

\* C7: after the first k mapped results have been folded in, the accumulator's
\* count for every key equals the sum of that key's counts over those k
\* results, and it holds no key that none of them holds.
C7_PointwiseSum ==
    pc \in {"reduce", "done"} =>
        \A f \in {"ips", "codes"} :
            /\ \A k \in Keys(accumulated_result[f])
                          \cup UNION { Keys(mapped_results[i][f]) :
                                         i \in 1..Len(mapped_results) } :
                  Get(accumulated_result[f], k) = CountUpTo(f, k, reduced)
            /\ Keys(accumulated_result[f])
                  \subseteq UNION { Keys(mapped_results[i][f]) : i \in 1..reduced }

\* C7 witness: one of two results has been folded in; it holds two addresses,
\* and the other result holds an address the accumulator does not hold yet.
C7_Witness ==
    /\ pc = "reduce"
    /\ reduced = 1
    /\ Len(mapped_results) = 2
    /\ Len(mapped_results[1].ips) = 2
    /\ \E k \in Keys(mapped_results[2].codes) : k \notin Keys(accumulated_result.codes)

\* C8: the reduce stage is entered, and the accumulator updated, only when
\* every worker has returned its partial result.
C8_BarrierBeforeReduce ==
    (pc \in {"reduce", "done"} \/ reduced > 0 \/ mapped_results # <<>>
       \/ accumulated_result # EmptyResult) =>
        \A i \in Workers : task[i] = "returned"

\* C8 witness: the first reducer step of a two-worker job has been taken.
C8_Witness ==
    /\ pc = "reduce"
    /\ reduced = 1
    /\ NUM_WORKERS = 2
    /\ accumulated_result # EmptyResult
    /\ AllReturned

C10_PoolReleased ==
    /\ pc = "map" => pool = "open"
    /\ pc \in {"reduce", "done", "failed"} => pool = "released"
    /\ pc \notin {"done", "failed"} => pool = "released" \/ ENABLED Next

\* C10 witness: the job has failed, a worker was terminated while it ran, and the
\* pool is released.
C10_Witness ==
    /\ pc = "failed"
    /\ pool = "released"
    /\ \E i \in Workers : task[i] = "terminated"

\* C11: with NUM_WORKERS <= 0 or LOG_SIZE < 0 the job fails before a pool is
\* opened or a chunk is queued, and nothing is reduced or reported.
C11_ConfigErrorsFailFast ==
    (NUM_WORKERS <= 0 \/ LOG_SIZE < 0) =>
        /\ pc \in {"main", "job", "failed"}
        /\ pool = "none"
        /\ \A i \in Workers : task[i] = "none"
        /\ mapped_results = <<>>

\* The worker has run at least one iteration of its loop.
Stepped(i) == task[i] \in {"running", "returned"} /\ remaining[i] < RangeLen(chunk_sizes[i])

\* C12: a loop iteration whose line does not match leaves both local tables
\* unchanged and raises nothing: the worker goes on with the rest of its share.
C12_MissIsSkipped ==
    [][\A i \in Workers :
          (remaining'[i] = remaining[i] - 1 /\ match' = <<>>) =>
              /\ local_ip_counts' = local_ip_counts
              /\ local_code_counts' = local_code_counts
              /\ matched' = matched
              /\ task'[i] = "running"
              /\ pc' = pc]_vars

\* C12 witness: a worker has returned from a share of two lines of which the
\* first missed and the second was counted.
C12_Witness ==
    /\ task[1] = "returned"
    /\ chunk_sizes[1] = 2
    /\ matched[1] = 1
    /\ match # <<>>
    /\ SumValues(local_ip_counts[1]) = 1

\* C15: for every line generate_log_line builds from an address of weighted_ips
\* and a code of STATUS_CODES, the search returns a match whose first group is
\* that address and whose second group is the decimal text of that code.
C15_RoundTrip ==
    (Stepped(1) /\ line \in GeneratedLines) =>
        /\ match # <<>>
        /\ \A a \in 1..Len(weighted_ips), c \in 1..Len(STATUS_CODES), ts \in Timestamps :
              line = generate_log_line(weighted_ips[a], STATUS_CODES[c], ts) =>
                  match = << weighted_ips[a], IntToStr(STATUS_CODES[c]) >>

\* C15 witness: a line with a ten-digit timestamp, an address of IPS and the
\* code 404 has been searched and counted.
C15_Witness ==
    /\ Stepped(1)
    /\ line = generate_log_line(IPS[1], 404, <<1762156800, 123456>>)
    /\ match # <<>>
    /\ Get(local_code_counts[1], <<"4", "0", "4">>) = 1

\* The line holds a dotted quad of one to three digits per octet.
HasAddress(s) == \E p \in 1..Len(s) : AddressEnds(s, p) # <<>>

\* The line holds "STATUS:" followed by a digit.
HasMarker(s) == \E q \in 1..Len(s) : MarkerAt(s, q)

\* C16: the search returns no match for the empty line, for a line without
\* "STATUS:" and a digit, and for a line without a dotted quad; when it matches,
\* a dotted quad ends before a "STATUS:digit" starts.
C16_NoMatchOnMalformed ==
    Stepped(1) =>
        /\ (line = <<>> \/ ~ HasAddress(line) \/ ~ HasMarker(line)) => match = <<>>
        /\ match # <<>> =>
              \E p, q \in 1..Len(line) :
                  /\ MarkerAt(line, q)
                  /\ \E k \in 1..Len(AddressEnds(line, p)) : AddressEnds(line, p)[k] <= q

\* C16 witness: a line whose only dotted quad comes after its only marker has
\* been searched without a match and without a count.
C16_Witness ==
    /\ Stepped(1)
    /\ HasAddress(line)
    /\ HasMarker(line)
    /\ match = <<>>
    /\ matched[1] = 0
    /\ task[1] = "returned"

\* C13: with LOG_SIZE = 0 every worker is given a share of 0 and returns two
\* empty tables, the job fails only if a worker failed, and the finished job has
\* an empty aggregate, no requests and an error rate of exactly 0.
C13_EmptyJobCompletes ==
    LOG_SIZE = 0 =>
        /\ MapStarted => \A i \in Workers : chunk_sizes[i] = 0
        /\ \A i \in Workers :
              task[i] = "returned" =>
                  local_ip_counts[i] = <<>> /\ local_code_counts[i] = <<>>
        /\ pc = "failed" => AnyFailed
        /\ pc = "done" =>
              /\ accumulated_result = EmptyResult
              /\ sorted_ips = <<>>
              /\ total_requests = 0
              /\ error_500 = 0
              /\ error_rate = 0

C13_Witness ==
    /\ pc = "done" /\ LOG_SIZE = 0 /\ NUM_WORKERS = 2 /\ reduced = 2
    /\ pool = "released" /\ AllReturned /\ error_rate = 0

\* Position of the address ip in the table d (0 when absent).
PosIn(d, ip) == IF ip \in Keys(d) THEN CHOOSE i \in 1..Len(d) : d[i][1] = ip ELSE 0

Listed == { sorted_ips[k][1] : k \in 1..Len(sorted_ips) }

\* C14: the report lists min(3, number of addresses) items of the aggregate
\* address table, in descending order of count, each listed count at least every
\* unlisted one, and of two addresses with equal counts the one met first in the
\* table's iteration order comes first (and is the one listed).
C14_TopThree ==
    pc = "done" =>
        LET ips == accumulated_result.ips
        IN  /\ Len(sorted_ips) = (IF Len(ips) < 3 THEN Len(ips) ELSE 3)
            /\ \A k \in 1..Len(sorted_ips) :
                  \E i \in 1..Len(ips) : ips[i] = sorted_ips[k]
            /\ \A k, l \in 1..Len(sorted_ips) :
                  k < l =>
                      /\ sorted_ips[k][1] # sorted_ips[l][1]
                      /\ sorted_ips[k][2] >= sorted_ips[l][2]
                      /\ sorted_ips[k][2] = sorted_ips[l][2] =>
                            PosIn(ips, sorted_ips[k][1]) < PosIn(ips, sorted_ips[l][1])
            /\ \A k \in 1..Len(sorted_ips), i \in 1..Len(ips) :
                  ips[i][1] \notin Listed =>
                      /\ sorted_ips[k][2] >= ips[i][2]
                      /\ sorted_ips[k][2] = ips[i][2] =>
                            PosIn(ips, sorted_ips[k][1]) < i

\* Four addresses, the last two inserted tie on the larger count with the third
\* of the table: the first of the table is the one left out.
C14_Witness ==
    /\ pc = "done"
    /\ Len(accumulated_result.ips) = 4
    /\ accumulated_result.ips[1][2] = 1
    /\ \A i \in 2..4 : accumulated_result.ips[i][2] = 2
    /\ Len(sorted_ips) = 3
    /\ \A k \in 1..3 : sorted_ips[k] = accumulated_result.ips[k + 1]

\* C20: with fair scheduling and no worker failing the job terminates: every
\* worker returns after exactly chunk_sizes[i] iterations, the fold has consumed
\* each of the NUM_WORKERS partial results once, and the report is reached.
C20_Terminates ==
    <>( /\ pc = "done"
        /\ \A i \in Workers :
              /\ task[i] = "returned"
              /\ remaining[i] = 0
              /\ matched[i] = chunk_sizes[i]
        /\ Len(mapped_results) = NUM_WORKERS
        /\ reduced = NUM_WORKERS
        /\ accumulated_result = Reduce(EmptyResult, mapped_results)
        /\ total_requests = SumSeq(chunk_sizes) )

\* C20 witness: a job of two workers and three lines has reached the report
\* with one line counted by each worker.
C20_Witness ==
    /\ pc = "done" /\ NUM_WORKERS = 2 /\ LOG_SIZE = 3 /\ reduced = 2
    /\ matched = <<1, 1>> /\ total_requests = 2 /\ AllReturned

\* C17: the warning is printed, before the job starts, exactly when LOG_SIZE is
\* not divisible by NUM_WORKERS; a job that printed it is not aborted and, when
\* no worker fails, goes on through the map and reduce stages to the report.
C17_WarningNotFatal ==
    /\ [](pc = "main" => ~ warned)
    /\ [](pc # "main" => warned = (LOG_SIZE % NUM_WORKERS # 0))
    /\ [](warned => pc # "failed")
    /\ (warned ~> (pc = "done" /\ reduced = NUM_WORKERS /\ AllReturned))

\* C17 witness: the job of three lines and two workers has printed the warning
\* and reached the report.
C17_Witness ==
    /\ warned /\ pc = "done" /\ LOG_SIZE = 3 /\ NUM_WORKERS = 2
    /\ pool = "released" /\ Len(mapped_results) = 2

\* The local tables of worker i.
Tables(i) == << local_ip_counts[i], local_code_counts[i] >>

\* C18: a worker's step that changes its tables changes no other worker's
\* state, no mapped result and not the accumulator, and the new tables come from
\* the worker's own tables and its own line; tables of a returned worker and the
\* mapped results never change; a reducer step leaves the workers' tables and
\* the mapped results alone, keeps every entry of the accumulator whose key is
\* not in new_result, and adds no key that new_result does not hold.
C18_Isolation ==
    [][/\ \A i \in Workers :
             (pc' = pc /\ Tables(i)' # Tables(i)) =>
                 /\ \A j \in Workers \ {i} :
                       /\ Tables(j)' = Tables(j)
                       /\ task'[j] = task[j]
                       /\ remaining'[j] = remaining[j]
                       /\ matched'[j] = matched[j]
                 /\ accumulated_result' = accumulated_result
                 /\ mapped_results' = mapped_results
                 /\ task'[i] = "running" =>
                       \/ Tables(i)' = << <<>>, <<>> >>
                       \/ \E generated \in GeneratedLines :
                             Tables(i)' =
                                << AddTo(local_ip_counts[i], Extracted[generated][1], 1),
                                   AddTo(local_code_counts[i], Extracted[generated][2], 1) >>
       /\ \A i \in Workers : task[i] = "returned" => Tables(i)' = Tables(i)
       /\ mapped_results # <<>> => mapped_results' = mapped_results
       /\ accumulated_result' # accumulated_result =>
             /\ pc = "reduce" /\ reduced' = reduced + 1
             /\ \A i \in Workers : Tables(i)' = Tables(i)
             /\ \A f \in {"ips", "codes"} :
                   LET old == accumulated_result[f]
                       new == mapped_results[reduced + 1][f]
                   IN  /\ Len(old) <= Len(accumulated_result'[f])
                       /\ \A q \in 1..Len(old) :
                             /\ accumulated_result'[f][q][1] = old[q][1]
                             /\ old[q][1] \notin Keys(new) =>
                                   accumulated_result'[f][q] = old[q]
                       /\ Keys(accumulated_result'[f]) = Keys(old) \cup Keys(new)]_vars

\* C18 witness: the second of two partial results has been folded in; the
\* accumulator held an address that result does not hold and kept its count,
\* and the two workers' tables differ.
C18_Witness ==
    /\ pc = "reduce" /\ reduced = 2
    /\ mapped_results[2] # EmptyResult
    /\ accumulated_result # acc_before
    /\ \E k \in Keys(acc_before.ips) \ Keys(mapped_results[2].ips) :
          Get(accumulated_result.ips, k) = Get(acc_before.ips, k)
    /\ Tables(1) # Tables(2)

====
